---------------------------- MODULE Spec2Model ----------------------------
(***************************************************************************)
(* A model of two components of the repository:                            *)
(*   - AGS::EventsManager (src/engines/ags/events.cpp): the translation of  *)
(*     the host event stream into the pending key queue, the pending event  *)
(*     queue and the key state table;                                       *)
(*   - GUI::EditableWidget (src/gui/widgets/editable.cpp): the edit buffer, *)
(*     the caret, the highlight (selection) and the scroll offset.          *)
(* The two components share no state; each has its own specification        *)
(* (EventsSpec, ScancodeSpec, EditSpec) over the one tuple of variables.    *)
(***************************************************************************)
EXTENDS Integers, Sequences, FiniteSets, TLC

VARIABLES
    \* ---- EventsManager
    host,            \* host events delivered and not yet polled
    pendingKeys,     \* _pendingKeys
    pendingEvents,   \* _pendingEvents
    keys,            \* _keys: the set of scancodes whose entry is true
    joystickAxis,    \* _joystickAxis: the <<axis, position>> of the entries that are not 0
    joystickButton,  \* _joystickButton: the set of buttons whose entry is true
    wantExit,        \* _G(want_exit) and _G(abort_engine)
    evOp,            \* the EventsManager call that ran last
    evRet,           \* what that call returned
    evKey,           \* the key state readKey popped last
    arrived,         \* history: key states pushed on _pendingKeys, in order
    returned,        \* history: the codes readKey returned for popped keys
    nDelivered,      \* history: number of host events delivered so far
    nMoves,          \* history: number of mouse-move events delivered so far
    nPopped,         \* history: number of events readEvent popped so far
    held,            \* history: host keycodes with a key down delivered and no later key up
    \* ---- getScancode on its own
    kcA, kcB, scA, scB, scPc,
    \* ---- EditableWidget
    editString,               \* _editString
    caretPos,                 \* _caretPos
    editScrollOffset,         \* _editScrollOffset
    highlightVisible,         \* _highlightVisible
    highlightPos,             \* _highlightPos
    highlightSize,            \* _highlightSize
    highlightCharacterCount,  \* _highlightCharacterCount
    highlightString,          \* _highlightString
    caretVisible,             \* _caretVisible
    enabled,                  \* isEnabled()
    visible,                  \* drawCaret's tests: the widget is visible and its rect is in range
    failed,                   \* the assertion that failed and ended the program, or "none"
    edOp,                     \* the EditableWidget call that ran last
    edKey,                    \* the key state of the last handleKeyDown
    edClip,                   \* the clipboard at the last handleKeyDown
    handled,                  \* what the last handleKeyDown returned
    nCmd,                     \* number of sendCommand(_cmd, 0) of the last call
    calls                     \* the collaborators the last call called

evVars == <<host, pendingKeys, pendingEvents, keys, joystickAxis, joystickButton,
            wantExit, evOp, evRet, evKey, arrived, returned, nDelivered, nMoves,
            nPopped, held>>
scVars == <<kcA, kcB, scA, scB, scPc>>
edVars == <<editString, caretPos, editScrollOffset, highlightVisible, highlightPos,
            highlightSize, highlightCharacterCount, highlightString, caretVisible,
            enabled, visible, failed, edOp, edKey, edClip, handled, nCmd,
            calls>>
vars == <<evVars, scVars, edVars>>

-----------------------------------------------------------------------------
(* Bounds of the model *)
MaxDelivered == 3
MaxLen == 2
EditWidth == 2

-----------------------------------------------------------------------------
(* Common::KeyCode (common/keyboard.h), the values the code compares. *)
KEYCODE ==
    [ INVALID |-> 0, BACKSPACE |-> 8, TAB |-> 9, RETURN |-> 13, PAUSE |-> 19,
      ESCAPE |-> 27, SPACE |-> 32, QUOTE |-> 39, ASTERISK |-> 42, COMMA |-> 44,
      MINUS |-> 45, PERIOD |-> 46, SLASH |-> 47, n0 |-> 48, n9 |-> 57,
      COLON |-> 58, SEMICOLON |-> 59, EQUALS |-> 61, LEFTBRACKET |-> 91,
      BACKSLASH |-> 92, RIGHTBRACKET |-> 93, a |-> 97, c |-> 99, v |-> 118,
      z |-> 122, TILDE |-> 126, DELETE |-> 127,
      KP0 |-> 256, KP1 |-> 257, KP2 |-> 258, KP3 |-> 259, KP4 |-> 260,
      KP5 |-> 261, KP6 |-> 262, KP7 |-> 263, KP8 |-> 264, KP9 |-> 265,
      KP_PERIOD |-> 266, KP_DIVIDE |-> 267, KP_MULTIPLY |-> 268,
      KP_MINUS |-> 269, KP_PLUS |-> 270, KP_ENTER |-> 271, KP_EQUALS |-> 272,
      UP |-> 273, DOWN |-> 274, RIGHT |-> 275, LEFT |-> 276, INSERT |-> 277,
      HOME |-> 278, END |-> 279, PAGEUP |-> 280, PAGEDOWN |-> 281,
      F1 |-> 282, F12 |-> 293, F13 |-> 294,
      NUMLOCK |-> 300, CAPSLOCK |-> 301, SCROLLOCK |-> 302, RSHIFT |-> 303,
      LSHIFT |-> 304, RCTRL |-> 305, LCTRL |-> 306, RALT |-> 307, LALT |-> 308,
      RMETA |-> 309, LMETA |-> 310, LSUPER |-> 311, RSUPER |-> 312,
      PRINT |-> 316, MENU |-> 319, LAST |-> 322 ]

(* The host keycodes: every value of the enumeration's range. *)
KeyCodes == 0 .. KEYCODE.LAST

(* AGS3::__allegro_KEY_* (ags/lib/allegro/keyboard.h). *)
ALLEGRO ==
    [ KEY_A |-> 1, KEY_0 |-> 27, KEY_0_PAD |-> 37, KEY_F1 |-> 47,
      KEY_ESC |-> 59, KEY_TILDE |-> 60, KEY_MINUS |-> 61, KEY_EQUALS |-> 62,
      KEY_BACKSPACE |-> 63, KEY_TAB |-> 64, KEY_OPENBRACE |-> 65,
      KEY_CLOSEBRACE |-> 66, KEY_ENTER |-> 67, KEY_COLON |-> 68,
      KEY_QUOTE |-> 69, KEY_BACKSLASH |-> 70, KEY_COMMA |-> 72,
      KEY_SLASH |-> 74, KEY_SPACE |-> 75, KEY_INSERT |-> 76, KEY_DEL |-> 77,
      KEY_HOME |-> 78, KEY_END |-> 79, KEY_PGUP |-> 80, KEY_PGDN |-> 81,
      KEY_LEFT |-> 82, KEY_RIGHT |-> 83, KEY_UP |-> 84, KEY_DOWN |-> 85,
      KEY_SLASH_PAD |-> 86, KEY_ASTERISK |-> 87, KEY_MINUS_PAD |-> 88,
      KEY_PLUS_PAD |-> 89, KEY_DEL_PAD |-> 90, KEY_ENTER_PAD |-> 91,
      KEY_PRTSCR |-> 92, KEY_PAUSE |-> 93, KEY_SEMICOLON |-> 105,
      KEY_LSHIFT |-> 115, KEY_RSHIFT |-> 116, KEY_LCONTROL |-> 117,
      KEY_RCONTROL |-> 118, KEY_ALT |-> 119, KEY_SCRLOCK |-> 124,
      KEY_NUMLOCK |-> 125, KEY_CAPSLOCK |-> 126, KEY_MAX |-> 127 ]

(* EXTENDED_KEY_CODE (ags/engine/ac/keycode.h): the low byte readKey gives an
   extended key. *)
EXTENDED_KEY_CODE == 0

(* Common::KBD_* modifier flags: a flags byte is modelled as the set of the
   flags that are set in it, so that (flags & KBD_X) != 0 is "X" \in flags. *)
KbdFlags == {"CTRL", "ALT", "SHIFT", "NUM", "CAPS", "SCRL", "META"}

-----------------------------------------------------------------------------
(* Bitwise or of two naturals, as C's | computes it. *)
RECURSIVE BitOr(_, _)
BitOr(x, y) ==
    IF x = 0 THEN y
    ELSE IF y = 0 THEN x
    ELSE (IF x % 2 = 1 \/ y % 2 = 1 THEN 1 ELSE 0) + 2 * BitOr(x \div 2, y \div 2)

-----------------------------------------------------------------------------
(* EventsManager::isModifierKey *)
isModifierKey(keycode) ==
    keycode \in { KEYCODE.LCTRL, KEYCODE.LALT, KEYCODE.RCTRL, KEYCODE.RALT,
                  KEYCODE.LSHIFT, KEYCODE.RSHIFT, KEYCODE.LSUPER, KEYCODE.RSUPER,
                  KEYCODE.CAPSLOCK, KEYCODE.NUMLOCK, KEYCODE.SCROLLOCK }

(* EventsManager::isExtendedKey: the EXTENDED_KEYS table, scanned. *)
EXTENDED_KEYS ==
    (KEYCODE.F1 .. KEYCODE.F12) \cup (KEYCODE.KP0 .. KEYCODE.KP9) \cup
    { KEYCODE.KP_PERIOD, KEYCODE.INSERT, KEYCODE.DELETE, KEYCODE.HOME,
      KEYCODE.END, KEYCODE.PAGEUP, KEYCODE.PAGEDOWN, KEYCODE.LEFT,
      KEYCODE.RIGHT, KEYCODE.UP, KEYCODE.DOWN }

isExtendedKey(keycode) == keycode \in EXTENDED_KEYS

(* The switch of getScancode: the host keycodes it names, each with the
   scancode its case returns. *)
ScancodeTable ==
    { <<KEYCODE.ESCAPE, ALLEGRO.KEY_ESC>>, <<KEYCODE.TILDE, ALLEGRO.KEY_TILDE>>,
      <<KEYCODE.MINUS, ALLEGRO.KEY_MINUS>>, <<KEYCODE.EQUALS, ALLEGRO.KEY_EQUALS>>,
      <<KEYCODE.BACKSPACE, ALLEGRO.KEY_BACKSPACE>>, <<KEYCODE.TAB, ALLEGRO.KEY_TAB>>,
      <<KEYCODE.LEFTBRACKET, ALLEGRO.KEY_OPENBRACE>>,
      <<KEYCODE.RIGHTBRACKET, ALLEGRO.KEY_CLOSEBRACE>>,
      <<KEYCODE.RETURN, ALLEGRO.KEY_ENTER>>, <<KEYCODE.COLON, ALLEGRO.KEY_COLON>>,
      <<KEYCODE.QUOTE, ALLEGRO.KEY_QUOTE>>, <<KEYCODE.BACKSLASH, ALLEGRO.KEY_BACKSLASH>>,
      <<KEYCODE.COMMA, ALLEGRO.KEY_COMMA>>, <<KEYCODE.SLASH, ALLEGRO.KEY_SLASH>>,
      <<KEYCODE.SPACE, ALLEGRO.KEY_SPACE>>, <<KEYCODE.INSERT, ALLEGRO.KEY_INSERT>>,
      <<KEYCODE.DELETE, ALLEGRO.KEY_DEL>>, <<KEYCODE.HOME, ALLEGRO.KEY_HOME>>,
      <<KEYCODE.END, ALLEGRO.KEY_END>>, <<KEYCODE.PAGEUP, ALLEGRO.KEY_PGUP>>,
      <<KEYCODE.PAGEDOWN, ALLEGRO.KEY_PGDN>>, <<KEYCODE.LEFT, ALLEGRO.KEY_LEFT>>,
      <<KEYCODE.RIGHT, ALLEGRO.KEY_RIGHT>>, <<KEYCODE.UP, ALLEGRO.KEY_UP>>,
      <<KEYCODE.DOWN, ALLEGRO.KEY_DOWN>>, <<KEYCODE.KP_DIVIDE, ALLEGRO.KEY_SLASH_PAD>>,
      <<KEYCODE.ASTERISK, ALLEGRO.KEY_ASTERISK>>,
      <<KEYCODE.KP_MINUS, ALLEGRO.KEY_MINUS_PAD>>,
      <<KEYCODE.KP_PLUS, ALLEGRO.KEY_PLUS_PAD>>,
      <<KEYCODE.KP_PERIOD, ALLEGRO.KEY_DEL_PAD>>,
      <<KEYCODE.KP_ENTER, ALLEGRO.KEY_ENTER_PAD>>,
      <<KEYCODE.PRINT, ALLEGRO.KEY_PRTSCR>>, <<KEYCODE.PAUSE, ALLEGRO.KEY_PAUSE>>,
      <<KEYCODE.SEMICOLON, ALLEGRO.KEY_SEMICOLON>>,
      <<KEYCODE.LSHIFT, ALLEGRO.KEY_LSHIFT>>, <<KEYCODE.RSHIFT, ALLEGRO.KEY_RSHIFT>>,
      <<KEYCODE.LCTRL, ALLEGRO.KEY_LCONTROL>>, <<KEYCODE.RCTRL, ALLEGRO.KEY_RCONTROL>>,
      <<KEYCODE.LALT, ALLEGRO.KEY_ALT>>, <<KEYCODE.RALT, ALLEGRO.KEY_ALT>>,
      <<KEYCODE.SCROLLOCK, ALLEGRO.KEY_SCRLOCK>>,
      <<KEYCODE.NUMLOCK, ALLEGRO.KEY_NUMLOCK>>,
      <<KEYCODE.CAPSLOCK, ALLEGRO.KEY_CAPSLOCK>> }

(* EventsManager::getScancode *)
getScancode(keycode) ==
    IF keycode >= KEYCODE.a /\ keycode <= KEYCODE.z
      THEN keycode - KEYCODE.a + ALLEGRO.KEY_A
    ELSE IF keycode >= KEYCODE.n0 /\ keycode <= KEYCODE.n9
      THEN keycode - KEYCODE.n0 + ALLEGRO.KEY_0
    ELSE IF keycode >= KEYCODE.KP0 /\ keycode <= KEYCODE.KP9
      THEN keycode - KEYCODE.KP0 + ALLEGRO.KEY_0_PAD
    ELSE IF keycode >= KEYCODE.F1 /\ keycode <= KEYCODE.F12
      THEN keycode - KEYCODE.F1 + ALLEGRO.KEY_F1
    ELSE IF \E e \in ScancodeTable : e[1] = keycode
      THEN (CHOOSE e \in ScancodeTable : e[1] = keycode)[2]
    ELSE 0

(* getScancode over every host keycode, computed once. *)
scancodeOf == [keycode \in KeyCodes |-> getScancode(keycode)]

(* The host keycodes getScancode maps: the four offset ranges and the cases of
   the switch. *)
MappedKeyCodes ==
    (KEYCODE.a .. KEYCODE.z) \cup (KEYCODE.n0 .. KEYCODE.n9) \cup
    (KEYCODE.KP0 .. KEYCODE.KP9) \cup (KEYCODE.F1 .. KEYCODE.F12) \cup
    { e[1] : e \in ScancodeTable }


-----------------------------------------------------------------------------
(* The host event stream.  An event carries its type, and the payload of its
   type: kbd for key events, joystick for joystick events, mouse for the
   position of a mouse event. *)
KeyState(keycode, flags, ascii) ==
    [keycode |-> keycode, flags |-> flags, ascii |-> ascii]

NoKey == KeyState(KEYCODE.INVALID, {}, 0)
NoJoy == [axis |-> 0, button |-> 0, position |-> 0]

Event(type, kbd, joystick, mouse) ==
    [type |-> type, kbd |-> kbd, joystick |-> joystick, mouse |-> mouse]

(* Common::Event(): what readEvent returns when nothing is pending. *)
EmptyEvent == Event("EVENT_INVALID", NoKey, NoJoy, 0)

KeyDown(k) == Event("EVENT_KEYDOWN", k, NoJoy, 0)
KeyUp(k) == Event("EVENT_KEYUP", k, NoJoy, 0)
MouseMove(m) == Event("EVENT_MOUSEMOVE", NoKey, NoJoy, m)
JoyAxis(axis, position) ==
    Event("EVENT_JOYAXIS_MOTION", NoKey, [axis |-> axis, button |-> 0, position |-> position], 0)
JoyButton(type, button) ==
    Event(type, NoKey, [axis |-> 0, button |-> button, position |-> 0], 0)

(* The host events of EventsSpec, which is about the two queues: mouse moves,
   another queued event, the events that are not queued (quit, joystick, key
   up, the key down of a modifier key) and the key downs of two keys. *)
QueueHostEvents ==
    { MouseMove(1), MouseMove(2),
      Event("EVENT_LBUTTONDOWN", NoKey, NoJoy, 1),
      Event("EVENT_QUIT", NoKey, NoJoy, 0),
      Event("EVENT_RETURN_TO_LAUNCHER", NoKey, NoJoy, 0),
      JoyAxis(31, -7),
      JoyButton("EVENT_JOYBUTTON_DOWN", 31),
      JoyButton("EVENT_JOYBUTTON_UP", 31),
      KeyDown(KeyState(KEYCODE.a, {}, 97)),
      KeyDown(KeyState(KEYCODE.F1, {"SHIFT"}, 0)),
      KeyDown(KeyState(KEYCODE.LCTRL, {"CTRL"}, 0)),
      KeyUp(KeyState(KEYCODE.a, {}, 97)) }

(* The host events of KeysSpec, which is about the keys: a letter, the letter
   with ctrl, an extended key, keys getScancode does not map (with ctrl, and
   with no character), a key whose character is beyond a byte, the two alt
   keys down and one of them up. *)
KeyHostEvents ==
    { KeyDown(KeyState(KEYCODE.a, {}, 97)),
      KeyDown(KeyState(KEYCODE.a, {"CTRL"}, 97)),
      KeyDown(KeyState(KEYCODE.F1, {}, 0)),
      KeyDown(KeyState(KEYCODE.PERIOD, {"CTRL"}, 46)),
      KeyDown(KeyState(KEYCODE.MENU, {}, 0)),
      KeyDown(KeyState(KEYCODE.SEMICOLON, {}, 1078)),
      KeyDown(KeyState(KEYCODE.LALT, {"ALT"}, 0)),
      KeyDown(KeyState(KEYCODE.RALT, {"ALT"}, 0)),
      KeyUp(KeyState(KEYCODE.LALT, {}, 0)) }

-----------------------------------------------------------------------------
(* The state pollEvents works on, as one record. *)
EvState ==
    [ pendingKeys |-> pendingKeys, pendingEvents |-> pendingEvents, keys |-> keys,
      joystickAxis |-> joystickAxis, joystickButton |-> joystickButton,
      wantExit |-> wantExit ]

(* EventsManager::updateKeys *)
updateKeys(st, keyState, isDown) ==
    LET scancode == scancodeOf[keyState.keycode] IN
    IF scancode /= 0
      THEN [st EXCEPT !.keys = IF isDown THEN @ \cup {scancode} ELSE @ \ {scancode}]
      ELSE st

(* queueEvent with the mouse-move test left out: every event is appended. *)
queueEvent_append(q, e) == Append(q, e)

(* The default case of pollEvents' switch: the pending event queue with e
   added, a mouse move replacing a mouse move at the back. *)
queueEvent(q, e) ==
    IF e.type = "EVENT_MOUSEMOVE" /\ q /= << >> /\ q[Len(q)].type = "EVENT_MOUSEMOVE"
      THEN [q EXCEPT ![Len(q)] = e]
      ELSE Append(q, e)

(* queueKey adding the key state at the front of the queue. *)
queueKey_front(q, kbd) ==
    IF ~isModifierKey(kbd.keycode) THEN <<kbd>> \o q ELSE q

(* The key-down case of pollEvents' switch: the pending key queue with the
   key state added unless the key is a modifier key. *)
queueKey(q, kbd) ==
    IF ~isModifierKey(kbd.keycode) THEN Append(q, kbd) ELSE q

(* One turn of pollEvents' loop: the switch on e.type. *)
pollOne(st, e) ==
    CASE e.type \in {"EVENT_QUIT", "EVENT_RETURN_TO_LAUNCHER"} ->
           [st EXCEPT !.wantExit = TRUE]
      [] e.type = "EVENT_JOYAXIS_MOTION" ->
           [st EXCEPT !.joystickAxis =
               {p \in @ : p[1] /= e.joystick.axis} \cup
               (IF e.joystick.position /= 0
                  THEN {<<e.joystick.axis, e.joystick.position>>} ELSE {})]
      [] e.type = "EVENT_JOYBUTTON_DOWN" ->
           [st EXCEPT !.joystickButton = @ \cup {e.joystick.button}]
      [] e.type = "EVENT_JOYBUTTON_UP" ->
           [st EXCEPT !.joystickButton = @ \ {e.joystick.button}]
      [] e.type = "EVENT_KEYDOWN" ->
           [updateKeys(st, e.kbd, TRUE) EXCEPT !.pendingKeys = queueKey(@, e.kbd)]
      [] e.type = "EVENT_KEYUP" ->
           updateKeys(st, e.kbd, FALSE)
      [] OTHER ->
           [st EXCEPT !.pendingEvents = queueEvent(@, e)]

(* EventsManager::pollEvents: the loop over every host event available. *)
RECURSIVE pollEvents(_, _)
pollEvents(st, events) ==
    IF events = << >> THEN st
    ELSE pollEvents(pollOne(st, Head(events)), Tail(events))

(* keyCode with the test of ctrl and alt left out. *)
keyCode_noModifierTest(keyState) ==
    LET scancode == scancodeOf[keyState.keycode]
        code == scancode * 256
    IN  IF isExtendedKey(keyState.keycode)
          THEN BitOr(code, EXTENDED_KEY_CODE)
          ELSE BitOr(code, keyState.ascii)

(* The code readKey makes of a popped key state. *)
keyCode(keyState) ==
    LET scancode == scancodeOf[keyState.keycode]
        code == scancode * 256
    IN  IF isExtendedKey(keyState.keycode)
          THEN BitOr(code, EXTENDED_KEY_CODE)
        ELSE IF keyState.flags \cap {"CTRL", "ALT"} = {}
          THEN BitOr(code, keyState.ascii)
        ELSE BitOr(code, scancode)

(* Common::Queue::pop, as readKey and readEvent use it: the front leaves. *)
queuePop(q) == Tail(q)
queueFront(q) == Head(q)

-----------------------------------------------------------------------------
(* The key states of the non-modifier key-down events among events. *)
RECURSIVE KeyDownsOf(_)
KeyDownsOf(events) ==
    IF events = << >> THEN << >>
    ELSE LET e == Head(events) IN
         (IF e.type = "EVENT_KEYDOWN" /\ ~isModifierKey(e.kbd.keycode)
            THEN <<e.kbd>> ELSE << >>) \o KeyDownsOf(Tail(events))

EvInit ==
    /\ host = << >>
    /\ pendingKeys = << >>
    /\ pendingEvents = << >>
    /\ keys = {}
    /\ joystickAxis = {}
    /\ joystickButton = {}
    /\ wantExit = FALSE
    /\ evOp = "init"
    /\ evRet = 0
    /\ evKey = NoKey
    /\ arrived = << >>
    /\ returned = << >>
    /\ nDelivered = 0
    /\ nMoves = 0
    /\ nPopped = 0
    /\ held = {}

(* The host makes one more event available, one of hostEvents. *)
HostDeliver(hostEvents) ==
    /\ nDelivered < MaxDelivered
    /\ \E e \in hostEvents :
         /\ host' = Append(host, e)
         /\ arrived' = arrived \o KeyDownsOf(<<e>>)
         /\ nMoves' = nMoves + (IF e.type = "EVENT_MOUSEMOVE" THEN 1 ELSE 0)
         /\ held' = CASE e.type = "EVENT_KEYDOWN" -> held \cup {e.kbd.keycode}
                      [] e.type = "EVENT_KEYUP" -> held \ {e.kbd.keycode}
                      [] OTHER -> held
    /\ nDelivered' = nDelivered + 1
    /\ UNCHANGED <<pendingKeys, pendingEvents, keys, joystickAxis, joystickButton,
                   wantExit, evOp, evRet, evKey, returned, nPopped>>

(* What every call does first: pollEvents over the events available. *)
Polled(st) ==
    /\ keys' = st.keys
    /\ joystickAxis' = st.joystickAxis
    /\ joystickButton' = st.joystickButton
    /\ wantExit' = st.wantExit
    /\ host' = << >>
    /\ UNCHANGED <<arrived, nDelivered, nMoves, held>>

(* A call of pollEvents itself. *)
PollEvents ==
    LET st == pollEvents(EvState, host) IN
    /\ Polled(st)
    /\ pendingKeys' = st.pendingKeys
    /\ pendingEvents' = st.pendingEvents
    /\ evOp' = "pollEvents"
    /\ evRet' = 0
    /\ UNCHANGED <<evKey, returned, nPopped>>

(* EventsManager::keypressed *)
Keypressed ==
    LET st == pollEvents(EvState, host) IN
    /\ Polled(st)
    /\ pendingKeys' = st.pendingKeys
    /\ pendingEvents' = st.pendingEvents
    /\ evOp' = "keypressed"
    /\ evRet' = IF st.pendingKeys /= << >> THEN 1 ELSE 0
    /\ UNCHANGED <<evKey, returned, nPopped>>

(* EventsManager::readKey *)
ReadKey ==
    LET st == pollEvents(EvState, host) IN
    /\ Polled(st)
    /\ pendingEvents' = st.pendingEvents
    /\ IF st.pendingKeys = << >>
         THEN /\ evOp' = "readKey:none"
              /\ evRet' = 0
              /\ pendingKeys' = st.pendingKeys
              /\ UNCHANGED <<evKey, returned>>
         ELSE LET keyState == queueFront(st.pendingKeys) IN
              /\ evOp' = "readKey:key"
              /\ pendingKeys' = queuePop(st.pendingKeys)
              /\ evKey' = keyState
              /\ evRet' = keyCode(keyState)
              /\ returned' = Append(returned, keyCode(keyState))
    /\ UNCHANGED nPopped

(* EventsManager::readEvent *)
ReadEvent ==
    LET st == pollEvents(EvState, host) IN
    /\ Polled(st)
    /\ pendingKeys' = st.pendingKeys
    /\ IF st.pendingEvents = << >>
         THEN /\ evOp' = "readEvent:none"
              /\ pendingEvents' = st.pendingEvents
              /\ UNCHANGED nPopped
         ELSE /\ evOp' = "readEvent:event"
              /\ pendingEvents' = queuePop(st.pendingEvents)
              /\ nPopped' = nPopped + 1
    /\ evRet' = 0
    /\ UNCHANGED <<evKey, returned>>

(* AGS3::__allegro_KB_*_FLAG (ags/lib/allegro/keyboard.h): the legacy
   modifier flags. *)
ALLEGRO_KB ==
    [ SHIFT_FLAG |-> 1, CTRL_FLAG |-> 2, ALT_FLAG |-> 4, COMMAND_FLAG |-> 64,
      SCROLOCK_FLAG |-> 256, NUMLOCK_FLAG |-> 512, CAPSLOCK_FLAG |-> 1024 ]

(* EventsManager::getModifierFlags on the queue of pending keys *)
getModifierFlags(queue) ==
    IF queue = << >> THEN 0
    ELSE LET flags == queueFront(queue).flags
             k0 == 0
             k1 == IF "SHIFT" \in flags THEN BitOr(k0, ALLEGRO_KB.SHIFT_FLAG) ELSE k0
             k2 == IF "CTRL" \in flags THEN BitOr(k1, ALLEGRO_KB.CTRL_FLAG) ELSE k1
             k3 == IF "ALT" \in flags THEN BitOr(k2, ALLEGRO_KB.ALT_FLAG) ELSE k2
             k4 == IF "META" \in flags THEN BitOr(k3, ALLEGRO_KB.COMMAND_FLAG) ELSE k3
             k5 == IF "SCRL" \in flags THEN BitOr(k4, ALLEGRO_KB.SCROLOCK_FLAG) ELSE k4
             k6 == IF "NUM" \in flags THEN BitOr(k5, ALLEGRO_KB.NUMLOCK_FLAG) ELSE k5
             k7 == IF "CAPS" \in flags THEN BitOr(k6, ALLEGRO_KB.CAPSLOCK_FLAG) ELSE k6
         IN  k7

(* EventsManager::getModifierFlags: a const call, which polls nothing. *)
GetModifierFlags ==
    /\ evOp' = "getModifierFlags"
    /\ evRet' = getModifierFlags(pendingKeys)
    /\ UNCHANGED <<host, pendingKeys, pendingEvents, keys, joystickAxis,
                   joystickButton, wantExit, evKey, arrived, returned, nDelivered,
                   nMoves, nPopped, held>>

(* EventsManager::isKeyPressed *)
isKeyPressed(keycode) == keycode \in keys

(* The host events of PressSpec, which is about keys held: a letter, the two
   alt keys and a key getScancode does not map, each going down and up. *)
PressHostEvents ==
    { KeyDown(KeyState(KEYCODE.a, {}, 97)),
      KeyUp(KeyState(KEYCODE.a, {}, 97)),
      KeyDown(KeyState(KEYCODE.LALT, {"ALT"}, 0)),
      KeyUp(KeyState(KEYCODE.LALT, {}, 0)),
      KeyDown(KeyState(KEYCODE.RALT, {"ALT"}, 0)),
      KeyUp(KeyState(KEYCODE.RALT, {}, 0)),
      KeyDown(KeyState(KEYCODE.MENU, {}, 0)),
      KeyUp(KeyState(KEYCODE.MENU, {}, 0)) }

(* The host events of ModifiersSpec: key downs with different modifiers
   held, and a modifier key of its own. *)
ModifierHostEvents ==
    { KeyDown(KeyState(KEYCODE.a, {}, 97)),
      KeyDown(KeyState(KEYCODE.a, {"CTRL"}, 97)),
      KeyDown(KeyState(KEYCODE.F1, {"SHIFT", "ALT"}, 0)),
      KeyDown(KeyState(KEYCODE.a + 1, {"NUM", "CAPS", "SCRL", "META"}, 98)),
      KeyDown(KeyState(KEYCODE.LCTRL, {"CTRL"}, 0)) }

-----------------------------------------------------------------------------
(***************************************************************************)
(* GUI::EditableWidget.  Characters are their codes; a string is a          *)
(* sequence, and position p of the code (from 0) is element p + 1 of it.    *)
(***************************************************************************)

(* g_gui.getCharWidth, g_gui.getStringWidth: the font of the model gives
   'b' (98) two pixels and every other character one, with no kerning. *)
getCharWidth(c) == IF c = 98 THEN 2 ELSE 1

RECURSIVE getStringWidth(_)
getStringWidth(str) ==
    IF str = << >> THEN 0 ELSE getCharWidth(Head(str)) + getStringWidth(Tail(str))

(* U32String::insertChar, deleteChar, setChar, trim, as the widget calls
   them; the callers test the range first (see Checked below). *)
insertChar(str, c, p) == SubSeq(str, 1, p) \o <<c>> \o SubSeq(str, p + 1, Len(str))
deleteChar(str, p) == SubSeq(str, 1, p) \o SubSeq(str, p + 2, Len(str))
setChar(str, c, p) == [str EXCEPT ![p + 1] = c]

isSpace(c) == c \in {9, 10, 11, 12, 13, 32}

RECURSIVE trimLeft(_)
trimLeft(str) ==
    IF str /= << >> /\ isSpace(Head(str)) THEN trimLeft(Tail(str)) ELSE str

RECURSIVE trimRight(_)
trimRight(str) ==
    IF str /= << >> /\ isSpace(str[Len(str)])
      THEN trimRight(SubSeq(str, 1, Len(str) - 1)) ELSE str

trim(str) == trimLeft(trimRight(str))

(* The widget a call works on: the members, and the call's own locals
   (handled, dirty, forcecaret) and effects (nCmd, calls). *)
Widget ==
    [ editString |-> editString, caretPos |-> caretPos,
      editScrollOffset |-> editScrollOffset,
      highlightVisible |-> highlightVisible, highlightPos |-> highlightPos,
      highlightSize |-> highlightSize,
      highlightCharacterCount |-> highlightCharacterCount,
      highlightString |-> highlightString,
      caretVisible |-> caretVisible,
      failed |-> failed,
      handled |-> TRUE, dirty |-> FALSE, forcecaret |-> FALSE,
      nCmd |-> 0, calls |-> {} ]

(* An assertion fails: the program ends there. *)
Fail(w, what) == [w EXCEPT !.failed = what]

(* step(w) unless the program has ended. *)
Running(w) == w.failed = "none"

(* CommandSender::sendCommand(_cmd, 0) *)
sendCommand(w) == IF ~Running(w) THEN w ELSE [w EXCEPT !.nCmd = @ + 1]

(* A call of a collaborator: endEditMode, abortEditMode, markAsDirty, the
   clipboard. *)
call(w, name) == IF ~Running(w) THEN w ELSE [w EXCEPT !.calls = @ \cup {name}]

(* EditableWidget::initHighlight *)
initHighlight(w) ==
    IF ~Running(w) THEN w
    ELSE [w EXCEPT !.highlightVisible = FALSE,
                   !.highlightString = [i \in 1 .. w.caretPos |-> 32],
                   !.highlightPos = w.caretPos,
                   !.highlightSize = 0,
                   !.highlightCharacterCount = 0]

(* EditableWidget::tryInsertChar's test of the byte c *)
acceptable(c) == (c >= 32 /\ c <= 127) \/ c >= 160

(* tryInsertChar, but appending the byte whatever pos is *)
tryInsertChar_append(w, c, pos) ==
    LET b == c % 256 IN
    IF ~Running(w) \/ ~acceptable(b) THEN [w |-> w, inserted |-> FALSE]
    ELSE [w |-> [w EXCEPT !.editString = Append(@, b)], inserted |-> TRUE]

(* EditableWidget::tryInsertChar(c, pos) for a value c, which the call
   converts to a byte: the widget after it, and in inserted whether it
   returned true. *)
tryInsertChar(w, c, pos) ==
    LET b == c % 256 IN
    IF ~Running(w) THEN [w |-> w, inserted |-> FALSE]
    ELSE IF ~acceptable(b) THEN [w |-> w, inserted |-> FALSE]
    ELSE IF pos > Len(w.editString)
      THEN [w |-> Fail(w, "insertChar"), inserted |-> FALSE]
    ELSE [w |-> [w EXCEPT !.editString = insertChar(@, b, pos)], inserted |-> TRUE]

(* EditableWidget::getCaretOffset *)
getCaretOffset(w) ==
    getStringWidth(SubSeq(w.editString, 1, w.caretPos)) - w.editScrollOffset

(* EditableWidget::getHighlightOffset.  With _highlightPos beyond the end of
   the string the substring is read beyond the string's end: its width is
   then whatever lies there, the value beyond. *)
getHighlightOffset(w, beyond) ==
    IF w.highlightPos <= Len(w.editString)
      THEN getStringWidth(SubSeq(w.editString, 1, w.highlightPos)) - w.editScrollOffset
      ELSE beyond - w.editScrollOffset

(* EditableWidget::adjustOffset *)
adjustOffset(w, beyond) ==
    LET caretpos == getCaretOffset(w)
        editWidth == EditWidth
    IN
    IF ~Running(w) THEN w
    ELSE IF w.highlightVisible THEN
        LET highlightpos == getHighlightOffset(w, beyond) IN
        IF highlightpos < 1
          THEN [w EXCEPT !.editScrollOffset = @ + highlightpos]
        ELSE IF highlightpos >= editWidth
          THEN [w EXCEPT !.editScrollOffset = @ - (editWidth - highlightpos)]
        ELSE w
    ELSE
        IF caretpos < 0
          THEN [w EXCEPT !.editScrollOffset = @ + caretpos]
        ELSE IF caretpos >= editWidth
          THEN [w EXCEPT !.editScrollOffset = @ - (editWidth - caretpos)]
        ELSE IF w.editScrollOffset > 0
          THEN LET strWidth == getStringWidth(w.editString) IN
               IF strWidth - w.editScrollOffset < editWidth
                 THEN [w EXCEPT !.editScrollOffset =
                          IF strWidth - editWidth < 0 THEN 0 ELSE strWidth - editWidth]
                 ELSE w
        ELSE w

(* reflowLayout, but without the test for a negative offset *)
reflowLayout_noClamp(w) ==
    IF ~Running(w) THEN w
    ELSE [w EXCEPT !.editScrollOffset = getStringWidth(w.editString) - EditWidth]

(* EditableWidget::reflowLayout, as far as it changes the members modelled
   (_drawAlign is not one). *)
reflowLayout(w) ==
    IF ~Running(w) THEN w
    ELSE LET offset == getStringWidth(w.editString) - EditWidth
         IN  [w EXCEPT !.editScrollOffset = IF offset < 0 THEN 0 ELSE offset]

(* EditableWidget::setCaretPos *)
setCaretPos(w, newPos, beyond) ==
    IF ~Running(w) THEN w
    ELSE IF ~(newPos >= 0 /\ newPos <= Len(w.editString))
      THEN Fail(w, "setCaretPos")
    ELSE adjustOffset([w EXCEPT !.caretPos = newPos], beyond)

(* EditableWidget::drawCaret, as far as it changes the widget: nothing when
   it returns early, else the highlight is reset unless one is visible, and
   _caretVisible becomes !erase. *)
drawCaret(w, erase, isVisible) ==
    IF ~Running(w) \/ ~isVisible THEN w
    ELSE [(IF w.highlightVisible THEN w ELSE initHighlight(w))
            EXCEPT !.caretVisible = ~erase]

(* EditableWidget::makeCaretVisible *)
makeCaretVisible(w, isVisible) ==
    IF ~Running(w) THEN w
    ELSE drawCaret([w EXCEPT !.caretVisible = TRUE], FALSE, isVisible)

(* The loop that removes the highlighted characters, from i down to
   _highlightPos + 1: _editString.deleteChar(i - 1) and
   _highlightString.deleteChar(i - 1), each asserting its range. *)
RECURSIVE removeFrom(_, _)
removeFrom(w, i) ==
    IF ~Running(w) \/ ~(i > w.highlightPos) THEN w
    ELSE IF i - 1 >= Len(w.editString) THEN Fail(w, "deleteChar")
    ELSE IF i - 1 >= Len(w.highlightString)
      THEN Fail([w EXCEPT !.editString = deleteChar(@, i - 1)], "deleteChar")
    ELSE removeFrom([w EXCEPT !.editString = deleteChar(@, i - 1),
                              !.highlightString = deleteChar(@, i - 1)], i - 1)

removeHighlighted(w) == removeFrom(w, w.highlightPos + w.highlightCharacterCount)

(* EditableWidget::defaultKeyDownHandler *)
defaultKeyDownHandler(w, state, beyond) ==
    IF ~Running(w) THEN w
    ELSE IF w.highlightVisible THEN
        LET ins == IF state.ascii < 256
                     THEN tryInsertChar(w, state.ascii, w.caretPos)
                     ELSE [w |-> w, inserted |-> FALSE]
        IN  IF ins.inserted
              THEN LET w1 == removeHighlighted(ins.w)
                       w2 == setCaretPos(w1, w1.highlightPos + 1, beyond)
                       w3 == initHighlight(w2)
                   IN  sendCommand([w3 EXCEPT !.dirty = Running(w3) \/ @,
                                              !.forcecaret = Running(w3) \/ @])
              ELSE ins.w
    ELSE
        LET ins == IF state.ascii < 256
                     THEN tryInsertChar(w, state.ascii, w.caretPos)
                     ELSE [w |-> w, inserted |-> FALSE]
        IN  IF ins.inserted
              THEN LET w1 == [ins.w EXCEPT !.caretPos = @ + 1]
                       w2 == initHighlight(w1)
                   IN  sendCommand([w2 EXCEPT !.dirty = TRUE, !.forcecaret = TRUE])
            ELSE IF Running(ins.w) THEN [ins.w EXCEPT !.handled = FALSE]
            ELSE ins.w

(* The remap of the numeric keypad in handleKeyDown. *)
remap ==
    << KEYCODE.INSERT, KEYCODE.END, KEYCODE.DOWN, KEYCODE.PAGEDOWN, KEYCODE.LEFT,
       KEYCODE.INVALID, KEYCODE.RIGHT, KEYCODE.HOME, KEYCODE.UP, KEYCODE.PAGEUP,
       KEYCODE.DELETE >>

(* remapped, but without the test of KBD_NUM *)
remapped_ignoreNum(state) ==
    IF KEYCODE.KP0 <= state.keycode /\ state.keycode <= KEYCODE.KP_PERIOD
      THEN [state EXCEPT !.keycode = remap[state.keycode - KEYCODE.KP0 + 1]]
      ELSE state

remapped(state) ==
    IF "NUM" \notin state.flags /\ KEYCODE.KP0 <= state.keycode
                                /\ state.keycode <= KEYCODE.KP_PERIOD
      THEN [state EXCEPT !.keycode = remap[state.keycode - KEYCODE.KP0 + 1]]
      ELSE state

(* case KEYCODE_BACKSPACE *)
keyBackspace(w, beyond) ==
    LET w1 ==
          IF w.highlightVisible THEN
              LET a == removeHighlighted(w)
                  b == setCaretPos(a, a.highlightPos, beyond)
                  c == sendCommand(initHighlight(b))
              IN  IF Running(c) THEN [c EXCEPT !.dirty = TRUE] ELSE c
          ELSE IF w.caretPos > 0 THEN
              LET a == [w EXCEPT !.caretPos = @ - 1]
                  b == IF a.caretPos >= Len(a.editString)
                         THEN Fail(a, "deleteChar")
                         ELSE [a EXCEPT !.editString = deleteChar(@, a.caretPos),
                                        !.dirty = TRUE]
              IN  sendCommand(initHighlight(b))
          ELSE w
    IN  IF Running(w1) THEN [w1 EXCEPT !.forcecaret = TRUE] ELSE w1

(* case KEYCODE_DELETE *)
keyDelete(w, beyond) ==
    LET w1 ==
          IF w.highlightVisible THEN
              LET a == removeHighlighted(w)
                  b == setCaretPos(a, a.highlightPos, beyond)
                  c == sendCommand(initHighlight(b))
              IN  IF Running(c) THEN [c EXCEPT !.dirty = TRUE] ELSE c
          ELSE IF w.caretPos < Len(w.editString) THEN
              LET a == [w EXCEPT !.editString = deleteChar(@, w.caretPos),
                                 !.dirty = TRUE]
              IN  sendCommand(initHighlight(a))
          ELSE w
    IN  IF Running(w1) THEN [w1 EXCEPT !.forcecaret = TRUE] ELSE w1

(* case KEYCODE_DOWN, KEYCODE_END *)
keyEnd(w, beyond) ==
    LET a == setCaretPos(initHighlight(w), Len(w.editString), beyond)
    IN  IF Running(a) THEN [a EXCEPT !.forcecaret = TRUE, !.dirty = TRUE] ELSE a

(* case KEYCODE_LEFT *)
keyLeft(w, state, beyond) ==
    LET w1 ==
          IF "SHIFT" \in state.flags THEN
              LET a == [w EXCEPT !.highlightVisible = TRUE] IN
              IF a.highlightPos > 0 THEN
                  LET p == a.highlightPos - 1 IN
                  IF p >= Len(a.editString) THEN Fail(a, "operator[]")
                  ELSE IF p >= Len(a.highlightString) THEN Fail(a, "setChar")
                  ELSE [a EXCEPT !.highlightPos = p,
                                 !.highlightCharacterCount = @ + 1,
                                 !.highlightSize = @ + getCharWidth(a.editString[p + 1]),
                                 !.highlightString = setChar(@, a.editString[p + 1], p)]
              ELSE a
          ELSE IF w.caretPos > 0 THEN
              sendCommand(initHighlight(setCaretPos(w, w.caretPos - 1, beyond)))
          ELSE w
    IN  IF Running(w1) THEN [w1 EXCEPT !.forcecaret = TRUE, !.dirty = TRUE] ELSE w1

(* keyRight, but notifying only when the caret moved, as Left does *)
keyRight_notifyOnMove(w, beyond) ==
    LET w1 == IF w.caretPos < Len(w.editString)
                THEN sendCommand(initHighlight(setCaretPos(w, w.caretPos + 1, beyond)))
                ELSE w
        w2 == initHighlight(w1)
    IN  IF Running(w2) THEN [w2 EXCEPT !.forcecaret = TRUE, !.dirty = TRUE] ELSE w2

(* case KEYCODE_RIGHT *)
keyRight(w, beyond) ==
    LET w1 == IF w.caretPos < Len(w.editString)
                THEN sendCommand(initHighlight(setCaretPos(w, w.caretPos + 1, beyond)))
                ELSE w
        w2 == sendCommand(initHighlight(w1))
    IN  IF Running(w2) THEN [w2 EXCEPT !.forcecaret = TRUE, !.dirty = TRUE] ELSE w2

(* case KEYCODE_UP, KEYCODE_HOME *)
keyHome(w, beyond) ==
    LET a == sendCommand(setCaretPos(initHighlight(w), 0, beyond))
    IN  IF Running(a) THEN [a EXCEPT !.forcecaret = TRUE, !.dirty = TRUE] ELSE a

(* The loop of the paste: tryInsertChar(text[i], _caretPos) for each
   character, the caret advancing past each one inserted. *)
RECURSIVE pasteFrom(_, _)
pasteFrom(w, text) ==
    IF ~Running(w) \/ text = << >> THEN w
    ELSE LET ins == tryInsertChar(w, Head(text), w.caretPos) IN
         pasteFrom(IF ins.inserted THEN [ins.w EXCEPT !.caretPos = @ + 1] ELSE ins.w,
                   Tail(text))

(* case KEYCODE_v; clipboard is what the host's clipboard holds: has (whether
   hasTextInClipboard) and text. *)
keyV(w, state, clipboard, beyond) ==
    IF "CTRL" \in state.flags THEN
        LET a == call(w, "hasTextInClipboard") IN
        IF clipboard.has THEN
            LET b == call(initHighlight(a), "getTextFromClipboard")
                c == pasteFrom(b, trim(clipboard.text))
            IN  IF Running(c) THEN [c EXCEPT !.dirty = TRUE] ELSE c
        ELSE a
    ELSE defaultKeyDownHandler(w, state, beyond)

(* case KEYCODE_c *)
keyC(w, state, beyond) ==
    IF "CTRL" \in state.flags THEN
        IF w.editString /= << >> THEN call(w, "setTextInClipboard") ELSE w
    ELSE defaultKeyDownHandler(w, state, beyond)

(* The switch of handleKeyDown on the remapped keycode. *)
dispatch(w, state, clipboard, beyond) ==
    CASE state.keycode \in {KEYCODE.RETURN, KEYCODE.KP_ENTER} ->
           [call(initHighlight(w), "endEditMode") EXCEPT !.dirty = TRUE]
      [] state.keycode = KEYCODE.ESCAPE ->
           [call(initHighlight(w), "abortEditMode") EXCEPT !.dirty = TRUE]
      [] state.keycode = KEYCODE.BACKSPACE -> keyBackspace(w, beyond)
      [] state.keycode = KEYCODE.DELETE -> keyDelete(w, beyond)
      [] state.keycode \in {KEYCODE.DOWN, KEYCODE.END} -> keyEnd(w, beyond)
      [] state.keycode = KEYCODE.LEFT -> keyLeft(w, state, beyond)
      [] state.keycode = KEYCODE.RIGHT -> keyRight(w, beyond)
      [] state.keycode \in {KEYCODE.UP, KEYCODE.HOME} -> keyHome(w, beyond)
      [] state.keycode = KEYCODE.v -> keyV(w, state, clipboard, beyond)
      [] state.keycode = KEYCODE.c -> keyC(w, state, beyond)
      [] OTHER -> defaultKeyDownHandler(w, state, beyond)

(* EditableWidget::handleKeyDown on an enabled widget (MACOSX not defined). *)
handleKeyDown(w, state, clipboard, beyond, isVisible) ==
    LET w1 == IF w.caretVisible THEN drawCaret(w, TRUE, isVisible) ELSE w
        w2 == dispatch(w1, remapped(state), clipboard, beyond)
        w3 == IF w2.dirty THEN call(w2, "markAsDirty") ELSE w2
    IN  IF w3.forcecaret THEN makeCaretVisible(w3, isVisible) ELSE w3

(* handleKeyDown, but without the test of isEnabled() *)
keyDownEvent_noEnabledTest(w, isEnabled, state, clipboard, beyond, isVisible) ==
    handleKeyDown(w, state, clipboard, beyond, isVisible)

(* EditableWidget::handleKeyDown from its first line: a widget that is not
   enabled returns false at once. *)
keyDownEvent(w, isEnabled, state, clipboard, beyond, isVisible) ==
    IF ~isEnabled THEN [w EXCEPT !.handled = FALSE]
    ELSE handleKeyDown(w, state, clipboard, beyond, isVisible)

(* Whether handleKeyDown's switch takes the key to defaultKeyDownHandler. *)
reachesDefault(state) ==
    LET kc == remapped(state).keycode IN
    \/ kc \notin { KEYCODE.RETURN, KEYCODE.KP_ENTER, KEYCODE.ESCAPE, KEYCODE.BACKSPACE,
                   KEYCODE.DELETE, KEYCODE.DOWN, KEYCODE.END, KEYCODE.LEFT,
                   KEYCODE.RIGHT, KEYCODE.UP, KEYCODE.HOME, KEYCODE.v, KEYCODE.c }
    \/ (kc \in {KEYCODE.v, KEYCODE.c} /\ "CTRL" \notin state.flags)

-----------------------------------------------------------------------------
(* The inputs of the model. *)

(* The key downs the widget gets. *)
EditKeys ==
    { KeyState(KEYCODE.RETURN, {}, 13),
      KeyState(KEYCODE.ESCAPE, {}, 27),
      KeyState(KEYCODE.BACKSPACE, {}, 8),
      KeyState(KEYCODE.DELETE, {}, 127),
      KeyState(KEYCODE.END, {}, 0),
      KeyState(KEYCODE.HOME, {}, 0),
      KeyState(KEYCODE.LEFT, {}, 0),
      KeyState(KEYCODE.LEFT, {"SHIFT"}, 0),
      KeyState(KEYCODE.RIGHT, {}, 0),
      KeyState(KEYCODE.a, {}, 97),
      KeyState(KEYCODE.a + 1, {}, 98),
      KeyState(KEYCODE.TAB, {}, 9),
      KeyState(KEYCODE.SEMICOLON, {}, 1078),
      KeyState(KEYCODE.v, {"CTRL"}, 118),
      KeyState(KEYCODE.c, {"CTRL"}, 99),
      KeyState(KEYCODE.KP2, {}, 50),
      KeyState(KEYCODE.KP5, {}, 53),
      KeyState(KEYCODE.KP5, {"NUM"}, 53) }

(* What the host's clipboard may hold at a paste. *)
Clipboards ==
    { [has |-> FALSE, text |-> << >>],
      [has |-> TRUE, text |-> <<97>>],
      [has |-> TRUE, text |-> <<32, 98, 7, 97, 32>>],
      [has |-> TRUE, text |-> <<353>>] }

(* The strings setEditString is given. *)
EditStrings == { << >>, <<97>>, <<98, 97>> }

(* The width a substring read beyond the end of the string may have. *)
Beyond == {0, 3}

(* The clipboard is read by the paste alone, and a substring is read beyond
   the string's end only with _highlightPos beyond it: elsewhere one value
   stands for all. *)
NoClipboard == [has |-> FALSE, text |-> << >>]

ClipboardAt(state) ==
    IF state.keycode = KEYCODE.v /\ "CTRL" \in state.flags
      THEN Clipboards ELSE {NoClipboard}

BeyondAt == IF highlightPos > Len(editString) THEN Beyond ELSE {0}

-----------------------------------------------------------------------------
(* EditableWidget::init, on a widget that is enabled or not, visible or not
   (Widget::isEnabled, Widget::isVisible). *)
EdInit ==
    /\ editString = << >>
    /\ caretPos = 0
    /\ editScrollOffset = 0
    /\ highlightVisible = FALSE
    /\ highlightPos = 0
    /\ highlightSize = 0
    /\ highlightCharacterCount = 0
    /\ highlightString = << >>
    /\ caretVisible = FALSE
    /\ enabled \in BOOLEAN
    /\ visible \in BOOLEAN
    /\ failed = "none"
    /\ edOp = "init"
    /\ edKey = NoKey
    /\ edClip = NoClipboard
    /\ handled = FALSE
    /\ nCmd = 0
    /\ calls = {}

(* The members a call leaves behind. *)
Becomes(w) ==
    /\ editString' = w.editString
    /\ caretPos' = w.caretPos
    /\ editScrollOffset' = w.editScrollOffset
    /\ highlightVisible' = w.highlightVisible
    /\ highlightPos' = w.highlightPos
    /\ highlightSize' = w.highlightSize
    /\ highlightCharacterCount' = w.highlightCharacterCount
    /\ highlightString' = w.highlightString
    /\ caretVisible' = w.caretVisible
    /\ failed' = w.failed
    /\ nCmd' = w.nCmd
    /\ calls' = w.calls

(* The key downs the widget gets in EnableSpec, where its owner enables and
   disables it. *)
EnableKeys ==
    { KeyState(KEYCODE.RETURN, {}, 13),
      KeyState(KEYCODE.BACKSPACE, {}, 8),
      KeyState(KEYCODE.LEFT, {"SHIFT"}, 0),
      KeyState(KEYCODE.a, {}, 97),
      KeyState(KEYCODE.v, {"CTRL"}, 118) }

(* The key downs the widget gets in KeypadSpec: the keypad's digits and
   period with num-lock not active (carrying their digit, or no character),
   keypad 2 with num-lock active, and shift+Left to make a selection. *)
KeypadKeys ==
    { KeyState(KEYCODE.KP0 + d, {}, 48 + d) : d \in {0, 1, 2, 4, 5, 6, 7, 8} }
      \cup { KeyState(KEYCODE.KP3, {}, 0),
             KeyState(KEYCODE.KP9, {}, 0),
             KeyState(KEYCODE.KP_PERIOD, {}, 46),
             KeyState(KEYCODE.KP2, {"NUM"}, 50),
             KeyState(KEYCODE.KP4, {"SHIFT"}, 52),
             KeyState(KEYCODE.LEFT, {"SHIFT"}, 0) }

(* EditableWidget::handleKeyDown for a key of keyStates *)
HandleKeys(keyStates) ==
    /\ failed = "none"
    /\ \E state \in keyStates : \E clipboard \in ClipboardAt(state), beyond \in BeyondAt :
         \E w \in {keyDownEvent(Widget, enabled, state, clipboard, beyond, visible)} :
             /\ Len(w.editString) <= MaxLen
             /\ Becomes(w)
             /\ handled' = w.handled
             /\ edKey' = state
             /\ edClip' = clipboard
    /\ edOp' = "handleKeyDown"
    /\ UNCHANGED <<enabled, visible>>

(* EditableWidget::handleKeyDown *)
HandleKeyDown == HandleKeys(EditKeys)

(* EditableWidget::setEditString *)
SetEditString ==
    /\ failed = "none"
    /\ \E str \in EditStrings :
         Becomes([Widget EXCEPT !.editString = str, !.caretPos = 0])
    /\ edOp' = "setEditString"
    /\ UNCHANGED <<enabled, visible, edKey, edClip, handled>>

(* EditableWidget::handleTickle; elapsed is whether _caretTime < time, for
   the time the host's clock gives. *)
HandleTickle ==
    /\ failed = "none"
    /\ \E elapsed \in BOOLEAN :
         LET w == Widget IN
         IF w.highlightVisible /\ enabled
           THEN Becomes(drawCaret(w, w.caretVisible, visible))
         ELSE IF elapsed /\ enabled
           THEN Becomes(drawCaret(w, w.caretVisible, visible))
         ELSE Becomes(w)
    /\ edOp' = "handleTickle"
    /\ UNCHANGED <<enabled, visible, edKey, edClip, handled>>

(* EditableWidget::reflowLayout *)
ReflowLayout ==
    /\ failed = "none"
    /\ Becomes(reflowLayout(Widget))
    /\ edOp' = "reflowLayout"
    /\ UNCHANGED <<enabled, visible, edKey, edClip, handled>>

(* The key downs the widget gets in LayoutSpec: the keys that move the caret
   or a selection boundary, or change the width of the text. *)
LayoutKeys ==
    { KeyState(KEYCODE.BACKSPACE, {}, 8),
      KeyState(KEYCODE.DELETE, {}, 127),
      KeyState(KEYCODE.END, {}, 0),
      KeyState(KEYCODE.HOME, {}, 0),
      KeyState(KEYCODE.LEFT, {}, 0),
      KeyState(KEYCODE.LEFT, {"SHIFT"}, 0),
      KeyState(KEYCODE.RIGHT, {}, 0),
      KeyState(KEYCODE.a, {}, 97),
      KeyState(KEYCODE.a + 1, {}, 98),
      KeyState(KEYCODE.v, {"CTRL"}, 118) }

(* Widget::setEnabled, called by the owner of the widget: isEnabled() changes
   and the members of the EditableWidget stay. *)
SetEnabled ==
    /\ failed = "none"
    /\ enabled' = ~enabled
    /\ Becomes(Widget)
    /\ edOp' = "setEnabled"
    /\ UNCHANGED <<visible, edKey, edClip, handled>>


ScIdle == scPc = "idle" /\ kcA = 0 /\ kcB = 0 /\ scA = 0 /\ scB = 0

(* The widget, constructed and left alone. *)
EdIdle == EdInit /\ visible = TRUE /\ enabled = TRUE

EventsInit == EvInit /\ ScIdle /\ EdIdle

EventsNext ==
    \/ HostDeliver(QueueHostEvents) /\ UNCHANGED <<scVars, edVars>>
    \/ PollEvents /\ UNCHANGED <<scVars, edVars>>
    \/ Keypressed /\ UNCHANGED <<scVars, edVars>>
    \/ ReadKey /\ UNCHANGED <<scVars, edVars>>
    \/ ReadEvent /\ UNCHANGED <<scVars, edVars>>

EventsSpec == EventsInit /\ [][EventsNext]_vars

KeysNext ==
    \/ HostDeliver(KeyHostEvents) /\ UNCHANGED <<scVars, edVars>>
    \/ PollEvents /\ UNCHANGED <<scVars, edVars>>
    \/ Keypressed /\ UNCHANGED <<scVars, edVars>>
    \/ ReadKey /\ UNCHANGED <<scVars, edVars>>
    \/ ReadEvent /\ UNCHANGED <<scVars, edVars>>

KeysSpec == EventsInit /\ [][KeysNext]_vars

PressNext ==
    \/ HostDeliver(PressHostEvents) /\ UNCHANGED <<scVars, edVars>>
    \/ PollEvents /\ UNCHANGED <<scVars, edVars>>

PressSpec == EventsInit /\ [][PressNext]_vars

ModifiersNext ==
    \/ HostDeliver(ModifierHostEvents) /\ UNCHANGED <<scVars, edVars>>
    \/ Keypressed /\ UNCHANGED <<scVars, edVars>>
    \/ ReadKey /\ UNCHANGED <<scVars, edVars>>
    \/ GetModifierFlags /\ UNCHANGED <<scVars, edVars>>

ModifiersSpec == EventsInit /\ [][ModifiersNext]_vars

EditInit == EvInit /\ ScIdle /\ EdInit

EditNext ==
    \/ HandleKeyDown /\ UNCHANGED <<evVars, scVars>>
    \/ SetEditString /\ UNCHANGED <<evVars, scVars>>
    \/ HandleTickle /\ UNCHANGED <<evVars, scVars>>

EditSpec == EditInit /\ [][EditNext]_vars

LayoutNext ==
    \/ HandleKeys(LayoutKeys) /\ UNCHANGED <<evVars, scVars>>
    \/ SetEditString /\ UNCHANGED <<evVars, scVars>>
    \/ ReflowLayout /\ UNCHANGED <<evVars, scVars>>

LayoutSpec == EditInit /\ [][LayoutNext]_vars

TypingNext == HandleKeyDown /\ UNCHANGED <<evVars, scVars>>

TypingSpec == EditInit /\ [][TypingNext]_vars

KeypadNext ==
    \/ HandleKeys(KeypadKeys) /\ UNCHANGED <<evVars, scVars>>
    \/ SetEditString /\ UNCHANGED <<evVars, scVars>>
    \/ HandleTickle /\ UNCHANGED <<evVars, scVars>>

KeypadSpec == EditInit /\ [][KeypadNext]_vars

EnableNext ==
    \/ HandleKeys(EnableKeys) /\ UNCHANGED <<evVars, scVars>>
    \/ HandleTickle /\ UNCHANGED <<evVars, scVars>>
    \/ SetEnabled /\ UNCHANGED <<evVars, scVars>>

EnableSpec == EditInit /\ [][EnableNext]_vars

-----------------------------------------------------------------------------
(* getScancode on its own: two host keycodes, and the scancode of each. *)
ScInit ==
    /\ kcA \in KeyCodes
    /\ kcB \in KeyCodes
    /\ scA = 0
    /\ scB = 0
    /\ scPc = "call"

GetScancodes ==
    /\ scPc = "call"
    /\ scA' = getScancode(kcA)
    /\ scB' = getScancode(kcB)
    /\ scPc' = "done"
    /\ UNCHANGED <<kcA, kcB>>

ScancodeInit == EvInit /\ ScInit /\ EdIdle

ScancodeNext == GetScancodes /\ UNCHANGED <<evVars, edVars>>

ScancodeSpec == ScancodeInit /\ [][ScancodeNext]_vars

-----------------------------------------------------------------------------
(* Claims about the EventsManager *)

IsMouseMove(e) == e.type = "EVENT_MOUSEMOVE"

\* C1: the pending event queue never holds a mouse move right behind a mouse
\* move, whatever host events were polled and whatever readEvent popped.
C1_NoAdjacentMouseMoves ==
    \A i \in 1 .. Len(pendingEvents) - 1 :
        ~(IsMouseMove(pendingEvents[i]) /\ IsMouseMove(pendingEvents[i + 1]))

\* C1's case: two mouse moves and a key down were delivered and polled,
\* nothing was popped, and the queue holds the later mouse move alone.
C1_Witness ==
    /\ nMoves = 2
    /\ nPopped = 0
    /\ Len(arrived) = 1
    /\ host = << >>
    /\ pendingEvents = <<MouseMove(2)>>

\* C2: readKey returns the non-modifier key downs in the order they were
\* delivered, each once: the codes returned so far are those of the first key
\* downs delivered, the key downs not yet returned wait in delivery order, and
\* readKey returns 0 only when none waits.
C2_FifoOrder ==
    LET waiting == pendingKeys \o KeyDownsOf(host) IN
    /\ Len(returned) + Len(waiting) = Len(arrived)
    /\ \A i \in 1 .. Len(returned) : returned[i] = keyCode(arrived[i])
    /\ \A i \in 1 .. Len(waiting) : waiting[i] = arrived[Len(returned) + i]
    /\ evOp = "readKey:key" => evRet = returned[Len(returned)]
    /\ evOp = "readKey:none" => evRet = 0 /\ pendingKeys = << >>

\* C2's case: two distinct keys were delivered, two readKey calls returned
\* their codes and a third returned 0.
C2_Witness ==
    /\ Len(arrived) = 2
    /\ arrived[1].keycode /= arrived[2].keycode
    /\ Len(returned) = 2
    /\ evOp = "readKey:none"
    /\ evRet = 0

\* C3: no two distinct host keycodes that getScancode maps have the same
\* scancode.
C3_Injective ==
    (scPc = "done" /\ kcA /= kcB /\ {kcA, kcB} \subseteq MappedKeyCodes)
        => scA /= scB

LowByte(code) == code % 256
PlainKey(keyState) ==
    ~isExtendedKey(keyState.keycode) /\ keyState.flags \cap {"CTRL", "ALT"} = {}

\* C4 as stated: the low byte of the code of a popped key is the marker iff
\* the key is extended, is the key's ascii iff the key is not extended and
\* neither ctrl nor alt is held, and is the scancode otherwise.
C4_PayloadIff ==
    evOp = "readKey:key" =>
        /\ LowByte(evRet) = EXTENDED_KEY_CODE <=> isExtendedKey(evKey.keycode)
        /\ LowByte(evRet) = evKey.ascii <=> PlainKey(evKey)
        /\ (~isExtendedKey(evKey.keycode) /\ ~PlainKey(evKey))
              => LowByte(evRet) = getScancode(evKey.keycode)

\* C4 as amended: the low byte of the code of a popped key is the marker if
\* the key is extended, the low byte of the key's ascii if the key is not
\* extended and neither ctrl nor alt is held, and the scancode otherwise.
C4_PayloadCases ==
    evOp = "readKey:key" =>
        LowByte(evRet) =
            IF isExtendedKey(evKey.keycode) THEN EXTENDED_KEY_CODE
            ELSE IF PlainKey(evKey) THEN LowByte(evKey.ascii)
            ELSE getScancode(evKey.keycode)

\* C4's case: readKey popped the letter pressed with ctrl, and its code
\* carries the scancode in both bytes.
C4_Witness ==
    /\ evOp = "readKey:key"
    /\ evKey = KeyState(KEYCODE.a, {"CTRL"}, 97)
    /\ evRet = ALLEGRO.KEY_A * 256 + ALLEGRO.KEY_A

\* C9: readKey returns 0 exactly when no key is pending after polling: the
\* code of a popped key is never 0.
C9_ZeroOnlyWhenEmpty ==
    /\ evOp = "readKey:none" => evRet = 0
    /\ evOp = "readKey:key" => evRet /= 0

-----------------------------------------------------------------------------
(* Claims about the EditableWidget, under EditSpec. *)

(* The last step was a handleKeyDown that the enabled widget returned from. *)
KeyHandled == edOp' = "handleKeyDown" /\ enabled /\ failed' = "none"

(* The keycode the switch of handleKeyDown sees for the last key. *)
SwitchedKey == remapped(edKey).keycode

(* getCaretOffset() of the widget as it stands. *)
CaretOffset == getCaretOffset(Widget)

(* C5: in every state reached through handleKeyDown events and setEditString
   calls, 0 <= caretPos <= length of the edit buffer, and the assertion of
   setCaretPos has not failed. *)
C5_CaretWithinBuffer ==
    /\ failed /= "setCaretPos"
    /\ 0 <= caretPos
    /\ caretPos <= Len(editString)

(* C6: every handleKeyDown that changes the content of the edit buffer sends
   sendCommand(_cmd, 0) at least once during that event. *)
C6_EditsNotify ==
    [][(KeyHandled /\ editString' /= editString) => nCmd' >= 1]_vars

(* C7: every handleKeyDown that edits the buffer, and every Left, Right,
   Up/Home, Down/End without shift, leaves the selection cleared when it
   returns: the highlight inactive and highlightCharacterCount = 0. *)
C7_SelectionCleared ==
    [][(/\ KeyHandled
        /\ \/ editString' /= editString
           \/ /\ "SHIFT" \notin edKey'.flags
              /\ SwitchedKey' \in { KEYCODE.LEFT, KEYCODE.RIGHT, KEYCODE.UP,
                                    KEYCODE.HOME, KEYCODE.DOWN, KEYCODE.END })
       => (~highlightVisible' /\ highlightCharacterCount' = 0)]_vars

(* C8: after every handleKeyDown that changes the caret position and leaves
   no selection active, 0 <= getCaretOffset() < width of the edit rect. *)
C8_CaretInField ==
    [][(KeyHandled /\ caretPos' /= caretPos /\ ~highlightVisible')
       => (0 <= CaretOffset' /\ CaretOffset' < EditWidth)]_vars

(* C10: a key that reaches defaultKeyDownHandler with a character that is not
   acceptable makes handleKeyDown return false and leaves the buffer, the
   caret and the selection as they were, with or without a selection
   active. *)
C10_UnacceptableIgnored ==
    [][(/\ KeyHandled
        /\ reachesDefault(edKey')
        /\ ~(edKey'.ascii < 256 /\ acceptable(edKey'.ascii)))
       => (/\ ~handled'
           /\ editString' = editString
           /\ caretPos' = caretPos
           /\ highlightVisible' = highlightVisible
           /\ highlightCharacterCount' = highlightCharacterCount
           /\ (highlightVisible => highlightPos' = highlightPos))]_vars

(* The characters of a text that are acceptable (32..127 or 160..255), in
   the order of the text. *)
RECURSIVE AcceptableOf(_)
AcceptableOf(text) ==
    IF text = << >> THEN << >>
    ELSE (IF Head(text) \in (32 .. 127) \cup (160 .. 255) THEN <<Head(text)>> ELSE << >>)
         \o AcceptableOf(Tail(text))

(* The last step was a handleKeyDown of Ctrl+V with text in the clipboard. *)
Pasted ==
    /\ KeyHandled
    /\ edKey'.keycode = KEYCODE.v /\ "CTRL" \in edKey'.flags
    /\ edClip'.has

(* C11: Ctrl+V with text in the clipboard inserts at the caret, in order, the
   acceptable characters of the trimmed clipboard text and no others, each as
   it is in the clipboard, advances the caret by their number and leaves the
   text before and after the insertion point as it was. *)
C11_PasteInsertsAcceptable ==
    [][Pasted =>
         LET inserted == AcceptableOf(trim(edClip'.text)) IN
         /\ editString' = SubSeq(editString, 1, caretPos) \o inserted
                            \o SubSeq(editString, caretPos + 1, Len(editString))
         /\ caretPos' = caretPos + Len(inserted)]_vars

(* The last step was a handleKeyDown of an enabled widget that took an
   acceptable character to defaultKeyDownHandler. *)
Typed ==
    /\ edOp' = "handleKeyDown" /\ enabled
    /\ reachesDefault(edKey')
    /\ edKey'.ascii < 256 /\ acceptable(edKey'.ascii)

(* C12: typing an acceptable character while a selection [p, p+n) is active
   gives the old buffer with exactly the run [p, p+n) replaced by the typed
   character, the caret at p + 1, the selection cleared and a change
   notification sent. *)
C12_TypeOverReplaces ==
    [][(Typed /\ highlightVisible) =>
         LET p == highlightPos
             n == highlightCharacterCount
         IN  /\ failed' = "none"
             /\ p + n <= Len(editString)
             /\ editString' = SubSeq(editString, 1, p) \o <<edKey'.ascii>>
                                \o SubSeq(editString, p + n + 1, Len(editString))
             /\ caretPos' = p + 1
             /\ ~highlightVisible' /\ highlightCharacterCount' = 0
             /\ nCmd' >= 1]_vars

(* The key down of Left with shift alone. *)
ShiftLeft == KeyState(KEYCODE.LEFT, {"SHIFT"}, 0)

(* C13: shift+Left with the selection start at position 0 and no selection
   (caret 0) is a no-op: buffer and caret are unchanged and no selection is
   created, the highlight staying inactive. *)
C13_ShiftLeftAtStart ==
    [][(/\ KeyHandled /\ edKey' = ShiftLeft
        /\ ~highlightVisible /\ highlightPos = 0 /\ caretPos = 0)
       => (/\ editString' = editString
           /\ caretPos' = caretPos
           /\ ~highlightVisible'
           /\ highlightCharacterCount' = 0)]_vars

(* C14: with num-lock not active a key down of keypad 5 changes neither the
   buffer nor the caret nor the selection and sends no change notification,
   whatever character code it carries. *)
C14_Keypad5NoOp ==
    [][(/\ KeyHandled
        /\ edKey'.keycode = KEYCODE.KP5 /\ "NUM" \notin edKey'.flags)
       => (/\ editString' = editString
           /\ caretPos' = caretPos
           /\ highlightVisible' = highlightVisible
           /\ highlightCharacterCount' = highlightCharacterCount
           /\ nCmd' = 0)]_vars

(* The navigation key each keypad key stands for with num-lock not active;
   keypad 5 stands for none. *)
NavigationOf ==
    [k \in (KEYCODE.KP0 .. KEYCODE.KP_PERIOD) \ {KEYCODE.KP5} |->
       CASE k = KEYCODE.KP0 -> KEYCODE.INSERT
         [] k = KEYCODE.KP1 -> KEYCODE.END
         [] k = KEYCODE.KP2 -> KEYCODE.DOWN
         [] k = KEYCODE.KP3 -> KEYCODE.PAGEDOWN
         [] k = KEYCODE.KP4 -> KEYCODE.LEFT
         [] k = KEYCODE.KP6 -> KEYCODE.RIGHT
         [] k = KEYCODE.KP7 -> KEYCODE.HOME
         [] k = KEYCODE.KP8 -> KEYCODE.UP
         [] k = KEYCODE.KP9 -> KEYCODE.PAGEUP
         [] k = KEYCODE.KP_PERIOD -> KEYCODE.DELETE]

(* The step just taken leaves the widget, and returns, as handleKeyDown of
   state does from the state before it. *)
ActsAs(state) ==
    \E beyond \in BeyondAt :
      \E w \in {handleKeyDown(Widget, state, edClip', beyond, visible)} :
        Becomes(w) /\ handled' = w.handled

(* C15: with num-lock not active, the key down of a keypad digit or period
   gives the successor state and the return value of a key down of its
   navigation equivalent with the same flags and ascii; with num-lock active
   the key is not remapped and is handled as a key with no case of its own. *)
C15_KeypadActsAsNavigation ==
    [][(/\ edOp' = "handleKeyDown" /\ enabled
        /\ edKey'.keycode \in DOMAIN NavigationOf)
       => IF "NUM" \notin edKey'.flags
            THEN ActsAs([edKey' EXCEPT !.keycode = NavigationOf[edKey'.keycode]])
            ELSE ActsAs([edKey' EXCEPT !.keycode = KEYCODE.INVALID])]_vars

(* Keypad 2 without num-lock has moved the caret to the end of "ba", which
   setEditString had put at 0, and no "2" is inserted. *)
C15_Witness ==
    /\ edOp = "handleKeyDown"
    /\ edKey = KeyState(KEYCODE.KP2, {}, 50)
    /\ editString = <<98, 97>>
    /\ caretPos = 2
    /\ failed = "none"

(* C16: while a selection is visible and the field is enabled, a tick leaves
   the caret-visible flag as it was; when the field is disabled a tick
   changes no state of the widget at all. *)
C16_TickKeepsCaret ==
    [][(edOp' = "handleTickle")
       => (/\ (highlightVisible /\ enabled) => caretVisible' = caretVisible
           /\ ~enabled => /\ Becomes(Widget)
                          /\ UNCHANGED <<enabled, visible>>)]_vars

(* C18: handleKeyDown on a disabled field returns false for every key and
   changes nothing: buffer, caret, selection, scroll offset and caret-visible
   flag are as before, and it sends no notification and calls neither the
   clipboard nor an edit-mode callback. *)
C18_DisabledRejects ==
    [][(edOp' = "handleKeyDown" /\ ~enabled)
       => (/\ ~handled'
           /\ Becomes(Widget)
           /\ nCmd' = 0 /\ calls' = {}
           /\ UNCHANGED <<enabled, visible>>)]_vars

(* A disabled field that holds "a" with the highlight active has got the
   key 'a' and returned false. *)
C18_Witness ==
    /\ edOp = "handleKeyDown" /\ ~enabled
    /\ edKey = KeyState(KEYCODE.a, {}, 97)
    /\ editString = <<97>> /\ caretPos = 1
    /\ highlightVisible /\ highlightCharacterCount = 1
    /\ ~handled

(* C19: with no selection active, an acceptable character typed is inserted
   at the caret, advances the caret by one and sends exactly one change
   notification, and Backspace with the caret beyond 0 removes exactly the
   character before the caret and moves the caret back by one. *)
C19_PushPop ==
    [][/\ (Typed /\ ~highlightVisible)
          => /\ failed' = "none"
             /\ editString' = SubSeq(editString, 1, caretPos) \o <<edKey'.ascii>>
                                \o SubSeq(editString, caretPos + 1, Len(editString))
             /\ caretPos' = caretPos + 1
             /\ nCmd' = 1
       /\ (/\ edOp' = "handleKeyDown" /\ enabled
           /\ SwitchedKey' = KEYCODE.BACKSPACE
           /\ ~highlightVisible /\ caretPos > 0)
          => /\ failed' = "none"
             /\ editString' = SubSeq(editString, 1, caretPos - 1)
                                \o SubSeq(editString, caretPos + 1, Len(editString))
             /\ caretPos' = caretPos - 1]_vars

(* Backspace has removed the second of two characters: "a" is left, with the
   caret behind it and the removal notified. *)
C19_Witness ==
    /\ edOp = "handleKeyDown"
    /\ edKey = KeyState(KEYCODE.BACKSPACE, {}, 8)
    /\ editString = <<97>> /\ caretPos = 1
    /\ ~highlightVisible /\ nCmd = 1
    /\ failed = "none"

(* C20: Right sends a change notification on every press, also with the
   caret at the end of the buffer, where buffer and caret stay; Left without
   shift sends one only when the caret moved and none at caret 0, where
   buffer and caret stay. *)
C20_ArrowNotifications ==
    [][(edOp' = "handleKeyDown" /\ enabled)
       => /\ SwitchedKey' = KEYCODE.RIGHT
             => /\ failed' = "none"
                /\ nCmd' >= 1
                /\ caretPos = Len(editString)
                   => (editString' = editString /\ caretPos' = caretPos)
          /\ (SwitchedKey' = KEYCODE.LEFT /\ "SHIFT" \notin edKey'.flags)
             => /\ failed' = "none"
                /\ nCmd' >= 1 => caretPos' /= caretPos
                /\ caretPos = 0
                   => (nCmd' = 0 /\ editString' = editString /\ caretPos' = caretPos)]_vars

(* Right has been pressed with the caret at the end of "a": the caret is
   still there and the one notification of the no-move case was sent. *)
C20_Witness ==
    /\ edOp = "handleKeyDown"
    /\ edKey = KeyState(KEYCODE.RIGHT, {}, 0)
    /\ editString = <<97>> /\ caretPos = 1
    /\ nCmd = 1
    /\ failed = "none"

-----------------------------------------------------------------------------
(* Claims about getModifierFlags, under ModifiersSpec. *)

(* The legacy flag of each modifier flag that getModifierFlags translates. *)
LegacyFlagOf ==
    [ SHIFT |-> ALLEGRO_KB.SHIFT_FLAG, CTRL |-> ALLEGRO_KB.CTRL_FLAG,
      ALT |-> ALLEGRO_KB.ALT_FLAG, META |-> ALLEGRO_KB.COMMAND_FLAG,
      SCRL |-> ALLEGRO_KB.SCROLOCK_FLAG, NUM |-> ALLEGRO_KB.NUMLOCK_FLAG,
      CAPS |-> ALLEGRO_KB.CAPSLOCK_FLAG ]

(* The legacy translation of a set of modifier flags: the sum of their
   (distinct) bits. *)
RECURSIVE LegacyFlags(_)
LegacyFlags(flags) ==
    IF flags = {} THEN 0
    ELSE LET f == CHOOSE x \in flags : TRUE
         IN  LegacyFlagOf[f] + LegacyFlags(flags \ {f})

(* C17: getModifierFlags called right after readKey returned a key reports
   the legacy translation of the modifiers of that key; called right after
   keypressed() returned true it reports those of the key at the front of the
   pending keys, which the next readKey returns. *)
C17_ModifiersOfTheKey ==
    [][(evOp' = "getModifierFlags")
       => /\ evOp = "readKey:key" => evRet' = LegacyFlags(evKey.flags)
          /\ (evOp = "keypressed" /\ evRet = 1)
             => /\ pendingKeys /= << >>
                /\ evRet' = LegacyFlags(queueFront(pendingKeys).flags)]_vars

-----------------------------------------------------------------------------
(* Claims about the scroll offset and the selection run. *)

(* C21: the horizontal scroll offset is never negative in a state reached
   from init through handleKeyDown (with its setCaretPos and adjustOffset),
   setEditString and reflowLayout. *)
C21_OffsetNotNegative == editScrollOffset >= 0

(* reflowLayout has scrolled a text wider than the field by what it exceeds
   the field. *)
C21_Witness ==
    /\ edOp = "reflowLayout"
    /\ failed = "none"
    /\ editScrollOffset = getStringWidth(editString) - EditWidth
    /\ editScrollOffset > 0

(* C22: whenever a selection is active, after any sequence of handleKeyDown
   calls, the selected run ends at the caret:
   _highlightPos + _highlightCharacterCount = _caretPos. *)
C22_SelectionEndsAtCaret ==
    (highlightVisible /\ failed = "none")
        => highlightPos + highlightCharacterCount = caretPos

(* C24: in every state reached through handleKeyDown and setEditString
   calls the selection run lies inside the buffer:
   0 <= _highlightPos and
   _highlightPos + _highlightCharacterCount <= _editString.size(). *)
C24_SelectionInsideBuffer ==
    failed = "none" =>
        /\ 0 <= highlightPos
        /\ highlightPos + highlightCharacterCount <= Len(editString)

(* C23: once the key downs and key ups delivered have been polled, for
   every scancode s other than 0, isKeyPressed(s) is true exactly when a host
   key that getScancode maps to s is held (a key down with no later key up);
   and entry 0 of _keys is never set. *)
C23_PressedIffHeld ==
    host = << >> =>
        /\ ~isKeyPressed(0)
        /\ \A s \in 1..(ALLEGRO.KEY_MAX - 1) :
             isKeyPressed(s) <=> (\E k \in held : scancodeOf[k] = s)

====
